---- MODULE Spec2Model ----
(***************************************************************************)
(* PulseGraph: the freshness policy (agent/freshness.py), the identity     *)
(* scheme (extract/contracts.py, graph/upsert.py), the Cypher merge layer  *)
(* (graph/upsert.py) and the refresh run (ingest/refresh.py).              *)
(*                                                                         *)
(* Strings are sequences of one-character strings, so that strip(),        *)
(* lower() and join() are computed rather than assumed.  sha256(...)[:24]  *)
(* is modelled as the identity on the string it hashes (no collisions).    *)
(* An optional value is <<>> (None / Cypher null) or <<v>>.                *)
(* Timestamps are whole hours.                                             *)
(***************************************************************************)
EXTENDS Integers, Sequences, FiniteSets, TLC

VARIABLES
    store,      \* the Neo4j graph: [nodes, edges, next]
    clock,      \* wall clock, in hours
    lastCall,   \* merge layer: the last call made and what it returned
    opCount,    \* merge layer: number of calls made so far
    run,        \* refresh_company_period: the locals of the run in progress
    history,    \* refresh_company_period: the finished runs, oldest first
    world,      \* what the external services have answered so far
    fc          \* freshness_check: its argument, locals and result

vars == <<store, clock, lastCall, opCount, run, history, world, fc>>

-----------------------------------------------------------------------------
(* Bounds of the model *)

MaxOps == 3
MaxTime == 2
MaxRuns == 2
MaxClaims == 2
MaxRows == 2
MaxCandidates == 2

-----------------------------------------------------------------------------
(* Strings *)

None == <<>>
Some(v) == <<v>>
IsNone(o) == Len(o) = 0

\* str.lower(), one character
Uppercase ==
    <<"A", "B", "C", "D", "E", "F", "G", "H", "I", "J", "K", "L", "M",
      "N", "O", "P", "Q", "R", "S", "T", "U", "V", "W", "X", "Y", "Z">>

Lowercase ==
    <<"a", "b", "c", "d", "e", "f", "g", "h", "i", "j", "k", "l", "m",
      "n", "o", "p", "q", "r", "s", "t", "u", "v", "w", "x", "y", "z">>

LowerChar(c) ==
    IF \E i \in DOMAIN Uppercase : Uppercase[i] = c
    THEN Lowercase[CHOOSE i \in DOMAIN Uppercase : Uppercase[i] = c]
    ELSE c

\* str.lower()
Lower(s) == [i \in 1..Len(s) |-> LowerChar(s[i])]

SetMin(S) == CHOOSE x \in S : \A y \in S : x <= y
SetMax(S) == CHOOSE x \in S : \A y \in S : x >= y

\* str.strip()
Strip(s) ==
    LET keep == {i \in 1..Len(s) : s[i] # " "}
    IN  IF keep = {} THEN <<>> ELSE SubSeq(s, SetMin(keep), SetMax(keep))

\* sep.join(parts)
RECURSIVE Join(_, _)
Join(sep, parts) ==
    IF Len(parts) = 0 THEN <<>>
    ELSE IF Len(parts) = 1 THEN parts[1]
    ELSE parts[1] \o sep \o Join(sep, Tail(parts))

MapStrip(parts) == [i \in 1..Len(parts) |-> Strip(parts[i])]
MapStripLower(parts) == [i \in 1..Len(parts) |-> Lower(Strip(parts[i]))]

\* seq[:n]
Take(seq, n) == SubSeq(seq, 1, IF Len(seq) < n THEN Len(seq) ELSE n)

\* x or "" for an optional string x
OrEmpty(o) == IF IsNone(o) \/ Len(o[1]) = 0 THEN <<>> ELSE o[1]

-----------------------------------------------------------------------------
(* Identity scheme *)

\* graph/upsert.py _id: "|".join(p.strip() for p in parts), hashed
_id(parts) == Join(<<"|">>, MapStrip(parts))

\* mutant: the URL is hashed as given
_stable_id_from_url_Raw(url) == url

\* extract/contracts.py _stable_id_from_url: url.strip(), hashed
_stable_id_from_url(url) == Strip(url)

\* extract/contracts.py _stable_id_from_text:
\* " | ".join(p.strip().lower() for p in parts).strip(), hashed
_stable_id_from_text(parts) == Strip(Join(<<" ", "|", " ">>, MapStripLower(parts)))

\* SourceDoc.source_id
source_id(doc) == _stable_id_from_url(doc.url)

\* Claim.claim_id
claim_id(claim) ==
    _stable_id_from_text(<<claim.company_name, claim.period, claim.claim_type,
                           OrEmpty(claim.timeframe), claim.text>>)

-----------------------------------------------------------------------------
(* The graph store and the Cypher clauses the merge layer uses.            *)
(* A node is [nid, label, props]; props maps property names to values, a   *)
(* property set to null is absent.  edges is a bag: edge |-> multiplicity. *)

EmptyStore == [nodes |-> {}, edges |-> <<>>, next |-> 1]

Get(props, k) == IF k \in DOMAIN props THEN Some(props[k]) ELSE None

\* SET n.k = v : a null value removes the property
SetProp(props, k, o) ==
    IF IsNone(o)
    THEN [x \in (DOMAIN props) \ {k} |-> props[x]]
    ELSE [x \in (DOMAIN props) \cup {k} |-> IF x = k THEN o[1] ELSE props[x]]

\* coalesce(a, b)
coalesce(a, b) == IF IsNone(a) THEN b ELSE a

\* one assignment of a SET list: n.k = $v, or n.k = coalesce($v, n.k)
Assign(k, o) == [k |-> k, o |-> o, keep |-> FALSE]
Coalesce(k, o) == [k |-> k, o |-> o, keep |-> TRUE]

RECURSIVE SetAll(_, _)
SetAll(props, assigns) ==
    IF Len(assigns) = 0 THEN props
    ELSE LET a == assigns[1]
         IN  SetAll(SetProp(props, a.k,
                            IF a.keep THEN coalesce(a.o, Get(props, a.k)) ELSE a.o),
                    Tail(assigns))

\* MATCH (n:label {id: $id})
Match(G, label, id) ==
    {n \in G.nodes : n.label = label /\ "id" \in DOMAIN n.props /\ n.props["id"] = id}

Edge(from, type, to, period) ==
    [from |-> from, type |-> type, to |-> to, period |-> period]

\* mutant: CREATE in place of MERGE
MergeEdge_Create(E, e) ==
    IF e \in DOMAIN E THEN [E EXCEPT ![e] = @ + 1] ELSE (e :> 1) @@ E

\* MERGE (a)-[:type {period}]->(b) for one bound pair (a, b)
MergeEdge(E, e) == IF e \in DOMAIN E THEN E ELSE (e :> 1) @@ E

RECURSIVE MergeEdges(_, _)
MergeEdges(E, es) ==
    IF es = {} THEN E
    ELSE LET e == CHOOSE x \in es : TRUE
         IN  MergeEdges(MergeEdge(E, e), es \ {e})

\* mutant: the ON CREATE list is applied to a matched node as well
MergeNode_OnCreateAlways(G, label, id, onCreate, onMatch) ==
    IF Match(G, label, id) = {}
    THEN [G EXCEPT
            !.nodes = @ \cup {[nid |-> G.next, label |-> label,
                               props |-> SetAll([x \in {"id"} |-> id], onCreate)]},
            !.next = @ + 1]
    ELSE [G EXCEPT
            !.nodes = {IF n \in Match(G, label, id)
                       THEN [n EXCEPT !.props = SetAll(n.props, onCreate)]
                       ELSE n : n \in G.nodes}]

\* mutant: CREATE (n:label {id: $id}) in place of MERGE
MergeNode_Create(G, label, id, onCreate, onMatch) ==
    [G EXCEPT
        !.nodes = @ \cup {[nid |-> G.next, label |-> label,
                           props |-> SetAll([x \in {"id"} |-> id], onCreate)]},
        !.next = @ + 1]

\* MERGE (n:label {id: $id}) ON CREATE SET onCreate ON MATCH SET onMatch:
\* the nodes it binds are those of Match afterwards
MergeNode(G, label, id, onCreate, onMatch) ==
    IF Match(G, label, id) = {}
    THEN [G EXCEPT
            !.nodes = @ \cup {[nid |-> G.next, label |-> label,
                               props |-> SetAll([x \in {"id"} |-> id], onCreate)]},
            !.next = @ + 1]
    ELSE [G EXCEPT
            !.nodes = {IF n \in Match(G, label, id)
                       THEN [n EXCEPT !.props = SetAll(n.props, onMatch)]
                       ELSE n : n \in G.nodes}]

Nids(S) == {n.nid : n \in S}

\* what a call gives back: the graph after it, its return value, whether it raised
Ret(G, v) == [G |-> G, ret |-> Some(v), raised |-> FALSE]
RetNone(G) == [G |-> G, ret |-> None, raised |-> FALSE]
Raise(G) == [G |-> G, ret |-> None, raised |-> TRUE]

-----------------------------------------------------------------------------
(* graph/upsert.py: one operator per function, one Cypher statement each *)

upsert_company(G, name, ticker, now) ==
    LET company_id == _id(<< <<"company">>, Lower(name), Lower(OrEmpty(ticker)) >>)
        G1 == MergeNode(G, "Company", company_id,
                  << Assign("name", Some(name)), Assign("ticker", ticker),
                     Assign("created_at", Some(now)), Assign("last_updated_at", Some(now)) >>,
                  << Assign("name", Some(name)), Assign("ticker", ticker),
                                Assign("last_updated_at", Some(now)) >>)
    IN  Ret(G1, company_id)

upsert_event(G, company_id, period, event_type, event_date, now) ==
    LET event_id == _id(<< <<"event">>, company_id, event_type, period >>)
        cs == Match(G, "Company", company_id)
        G1 == MergeNode(G, "Event", event_id,
                  << Assign("type", Some(event_type)), Assign("period", Some(period)),
                     Assign("event_date", event_date),
                     Assign("created_at", Some(now)), Assign("last_updated_at", Some(now)) >>,
                  << Assign("type", Some(event_type)), Assign("period", Some(period)),
                                Coalesce("event_date", event_date),
                                Assign("last_updated_at", Some(now)) >>)
        es == Match(G1, "Event", event_id)
        G2 == [G1 EXCEPT !.edges = MergeEdges(@,
                  {Edge(c.nid, "HAS_EVENT", e.nid, None) : c \in cs, e \in es})]
    IN  \* no Company row: the statement returns no record and rec["id"] raises
        IF cs = {} THEN Raise(G) ELSE Ret(G2, event_id)

\* mutant: CREATE in place of MERGE
upsert_source_Create(G, doc, now) ==
    Ret([G EXCEPT
           !.nodes = @ \cup {[nid |-> G.next, label |-> "Source",
                              props |-> [id |-> source_id(doc), url |-> doc.url,
                                         title |-> doc.title,
                                         fetched_at |-> doc.fetched_at,
                                         created_at |-> now, last_updated_at |-> now]]},
           !.next = @ + 1],
        source_id(doc))

\* mutant: a matched Source is deleted with its edges and created anew
upsert_source_Replace(G, doc, now) ==
    LET old == Nids(Match(G, "Source", source_id(doc)))
        kept == {e \in DOMAIN G.edges : e.from \notin old /\ e.to \notin old}
    IN  upsert_source_Create([G EXCEPT !.nodes = {n \in @ : n.nid \notin old},
                                       !.edges = [e \in kept |-> G.edges[e]]],
                             doc, now)

\* mutant: the id is returned without the Source being merged
upsert_source_Skip(G, doc, now) == Ret(G, source_id(doc))

upsert_source(G, doc, now) ==
    LET id == source_id(doc)
        G1 == MergeNode(G, "Source", id,
                  << Assign("url", Some(doc.url)), Assign("title", Some(doc.title)),
                     Assign("source_type", Some(doc.source_type)),
                     Assign("site_name", doc.site_name), Assign("author", doc.author),
                     Assign("language", doc.language), Assign("query", doc.query),
                     Assign("published_at", doc.published_at),
                     Assign("fetched_at", Some(doc.fetched_at)),
                     Assign("created_at", Some(now)), Assign("last_updated_at", Some(now)) >>,
                  << Coalesce("title", Some(doc.title)),
                     Coalesce("source_type", Some(doc.source_type)),
                     Coalesce("site_name", doc.site_name),
                     Coalesce("author", doc.author),
                     Coalesce("language", doc.language),
                     Coalesce("query", doc.query),
                     Coalesce("published_at", doc.published_at),
                     Coalesce("fetched_at", Some(doc.fetched_at)),
                     Assign("last_updated_at", Some(now)) >>)
    IN  Ret(G1, id)

link_source_mentions_company(G, sid, company_id) ==
    LET ss == Match(G, "Source", sid)
        cs == Match(G, "Company", company_id)
    IN  RetNone([G EXCEPT !.edges = MergeEdges(@,
                  {Edge(s.nid, "MENTIONS", c.nid, None) : s \in ss, c \in cs})])

upsert_claim(G, company_id, event_id, sid, text, claim_type, confidence, now) ==
    LET id == _id(<< <<"claim">>, company_id, event_id, Lower(text) >>)
        cs == Match(G, "Company", company_id)
        es == Match(G, "Event", event_id)
        ss == Match(G, "Source", sid)
        G1 == MergeNode(G, "Claim", id,
                  << Assign("text", Some(text)), Assign("claim_type", Some(claim_type)),
                     Assign("confidence", Some(confidence)),
                     Assign("created_at", Some(now)), Assign("last_updated_at", Some(now)) >>,
                  << Assign("text", Some(text)), Assign("claim_type", Some(claim_type)),
                                Assign("confidence", Some(confidence)),
                                Assign("last_updated_at", Some(now)) >>)
        cls == Match(G1, "Claim", id)
        G2 == [G1 EXCEPT !.edges = MergeEdges(@,
                  {Edge(e.nid, "HAS_CLAIM", cl.nid, None) : e \in es, cl \in cls}
                  \cup {Edge(s.nid, "SUPPORTS", cl.nid, None) : s \in ss, cl \in cls}
                  \cup {Edge(cl.nid, "ABOUT", c.nid, None) : cl \in cls, c \in cs})]
    IN  IF cs = {} \/ es = {} \/ ss = {} THEN Raise(G) ELSE Ret(G2, id)

upsert_signal(G, company_id, event_id, signal_type, score, volume, window, computed_at, now) ==
    LET at == coalesce(computed_at, Some(now))   \* computed_at or datetime.utcnow()
        id == _id(<< <<"signal">>, company_id, event_id, signal_type, window >>)
        cs == Match(G, "Company", company_id)
        es == Match(G, "Event", event_id)
        G1 == MergeNode(G, "Signal", id,
                  << Assign("signal_type", Some(signal_type)), Assign("score", Some(score)),
                     Assign("volume", Some(volume)), Assign("window", Some(window)),
                     Assign("computed_at", at) >>,
                  << Assign("score", Some(score)), Assign("volume", Some(volume)),
                                Assign("computed_at", at) >>)
        sgs == Match(G1, "Signal", id)
        G2 == [G1 EXCEPT !.edges = MergeEdges(@,
                  {Edge(sg.nid, "ABOUT", c.nid, None) : sg \in sgs, c \in cs}
                  \cup {Edge(sg.nid, "IN_WINDOW", e.nid, None) : sg \in sgs, e \in es})]
    IN  IF cs = {} \/ es = {} THEN Raise(G) ELSE Ret(G2, id)

\* SET after MERGE applies to a created and to a matched node alike
ClaimSet(claim) ==
    << Assign("text", Some(claim.text)), Assign("claim_type", Some(claim.claim_type)),
       Assign("direction", Some(claim.direction)), Assign("timeframe", claim.timeframe),
       Assign("value", claim.value), Assign("unit", claim.unit),
       Assign("confidence", Some(claim.confidence)), Assign("evidence", Some(claim.evidence)) >>

\* mutant: the id of a Claim takes in the source that supports it
upsert_claim_and_links_PerSource(G, company_id, sid, period, claim) ==
    LET id == claim_id(claim) \o <<"|">> \o sid
        G1 == MergeNode(G, "Claim", id, ClaimSet(claim), ClaimSet(claim))
        cls == Match(G1, "Claim", id)
        cs == Match(G1, "Company", company_id)
        ss == Match(G1, "Source", sid)
    IN  RetNone([G1 EXCEPT !.edges = MergeEdges(@,
                  IF cs = {} \/ ss = {} THEN {}
                  ELSE {Edge(c.nid, "HAS_CLAIM", cl.nid, Some(period)) : c \in cs, cl \in cls}
                       \cup {Edge(s.nid, "SUPPORTS", cl.nid, None) : s \in ss, cl \in cls})])

\* mutant: the fields are set ON CREATE only, the first write wins
upsert_claim_and_links_FirstWins(G, company_id, sid, period, claim) ==
    LET id == claim_id(claim)
        G1 == MergeNode(G, "Claim", id, ClaimSet(claim), <<>>)
        cls == Match(G1, "Claim", id)
        cs == Match(G1, "Company", company_id)
        ss == Match(G1, "Source", sid)
    IN  RetNone([G1 EXCEPT !.edges = MergeEdges(@,
                  IF cs = {} \/ ss = {} THEN {}
                  ELSE {Edge(c.nid, "HAS_CLAIM", cl.nid, Some(period)) : c \in cs, cl \in cls}
                       \cup {Edge(s.nid, "SUPPORTS", cl.nid, None) : s \in ss, cl \in cls})])

upsert_claim_and_links(G, company_id, sid, period, claim) ==
    LET id == claim_id(claim)
        G1 == MergeNode(G, "Claim", id, ClaimSet(claim), ClaimSet(claim))
        cls == Match(G1, "Claim", id)
        cs == Match(G1, "Company", company_id)
        ss == Match(G1, "Source", sid)
    IN  \* WITH cl MATCH (c) MATCH (s): no row, no edge; the node stays merged
        RetNone([G1 EXCEPT !.edges = MergeEdges(@,
                  IF cs = {} \/ ss = {} THEN {}
                  ELSE {Edge(c.nid, "HAS_CLAIM", cl.nid, Some(period)) : c \in cs, cl \in cls}
                       \cup {Edge(s.nid, "SUPPORTS", cl.nid, None) : s \in ss, cl \in cls})])

-----------------------------------------------------------------------------
(* Inputs the model draws from *)

NameNv == <<"N", "v">>
Names == {NameNv, Lower(NameNv)}
CidNv == _id(<< <<"company">>, Lower(NameNv), <<>> >>)
PeriodQ3 == <<"Q", "3">>
Earnings == <<"earnings">>
EidQ3 == _id(<< <<"event">>, CidNv, Earnings, PeriodQ3 >>)
UrlU == <<"u">>
SidU == _stable_id_from_url(UrlU)
QueryQ == <<"q">>

Doc(url, title, source_type, fetched_at, site_name, published_at, query) ==
    [url |-> url, title |-> title, source_type |-> source_type,
     fetched_at |-> fetched_at, published_at |-> published_at, query |-> query,
     site_name |-> site_name, author |-> None, language |-> None]

\* the second names the same source as the first, with fewer optional fields
StoreDocs ==
    {Doc(UrlU, <<"T">>, <<"news">>, 0, Some(<<"S">>), Some(0), Some(QueryQ)),
     Doc(<<" ", "u">>, <<"t">>, <<"blog">>, 1, None, None, None)}

MkClaim(company_name, period, text, claim_type, timeframe, confidence, evidence) ==
    [company_name |-> company_name, period |-> period, text |-> text,
     claim_type |-> claim_type, timeframe |-> timeframe, direction |-> <<"unknown">>,
     value |-> None, unit |-> None, confidence |-> confidence, evidence |-> evidence]

WithValue(claim, value, unit) == [claim EXCEPT !.value = value, !.unit = unit]

\* confidence counts tenths.  The second has the identity of the first, and
\* no value or unit.
StoreClaims ==
    {WithValue(MkClaim(NameNv, PeriodQ3, <<"R">>, <<"revenue">>, Some(<<"F">>), 8, <<"x">>),
               Some(3), Some(<<"%">>)),
     MkClaim(Lower(NameNv), PeriodQ3, <<"r", " ">>, <<"revenue">>, Some(<<"f">>), 5, <<>>)}

-----------------------------------------------------------------------------
(* The merge layer on its own: any caller, any order (scripts/seed_minimal.py
   is one such caller).  A call is [op, a]: the function and its arguments. *)

Apply(call, G, now) ==
    LET a == call.a IN
    CASE call.op = "upsert_company" -> upsert_company(G, a[1], a[2], now)
      [] call.op = "upsert_event" -> upsert_event(G, a[1], a[2], a[3], a[4], now)
      [] call.op = "upsert_source" -> upsert_source(G, a[1], now)
      [] call.op = "link_source_mentions_company" ->
            link_source_mentions_company(G, a[1], a[2])
      [] call.op = "upsert_claim" ->
            upsert_claim(G, a[1], a[2], a[3], a[4], a[5], a[6], now)
      [] call.op = "upsert_signal" ->
            upsert_signal(G, a[1], a[2], a[3], a[4], a[5], a[6], a[7], now)
      [] call.op = "upsert_claim_and_links" ->
            upsert_claim_and_links(G, a[1], a[2], a[3], a[4])

NoCall == [call |-> [op |-> "none", a |-> <<>>], ret |-> None, raised |-> FALSE,
           at |-> 0, before |-> EmptyStore]
NoRun == [pc |-> "idle"]
\* nothing asked of the external services yet
NoWorld == [llm_key |-> None, discovery |-> None, fetch |-> <<>>, extract |-> None,
            graph |-> None]
NoCheck == [pc |-> "idle"]

\* time may pass before the call; the call reads the clock once
Call(c) ==
    /\ opCount < MaxOps
    /\ \E now \in {clock, clock + 1} :
        /\ now <= MaxTime
        /\ clock' = now
        /\ LET r == Apply(c, store, now)
           IN  /\ store' = r.G
               /\ lastCall' = [call |-> c, ret |-> r.ret, raised |-> r.raised,
                               at |-> now, before |-> store]
    /\ opCount' = opCount + 1
    /\ UNCHANGED <<run, history, world, fc>>

UpsertCompany ==
    \E name \in Names :
        Call([op |-> "upsert_company", a |-> <<name, None>>])

UpsertEvent ==
    \E event_date \in {None, Some(1)} :
        Call([op |-> "upsert_event", a |-> <<CidNv, PeriodQ3, Earnings, event_date>>])

UpsertSource ==
    \E doc \in StoreDocs :
        Call([op |-> "upsert_source", a |-> <<doc>>])

LinkSourceMentionsCompany ==
    Call([op |-> "link_source_mentions_company", a |-> <<SidU, CidNv>>])

UpsertClaim ==
    \E text \in {<<"R">>, <<"r">>} :
        Call([op |-> "upsert_claim",
              a |-> <<CidNv, EidQ3, SidU, text, <<"revenue">>, 8>>])

UpsertSignal ==
    \E computed_at \in {None, Some(0)} :
        Call([op |-> "upsert_signal",
              a |-> <<CidNv, EidQ3, <<"sentiment">>, 6, 1, <<"w">>, computed_at>>])

UpsertClaimAndLinks ==
    \E claim \in StoreClaims :
        Call([op |-> "upsert_claim_and_links", a |-> <<CidNv, SidU, PeriodQ3, claim>>])

\* the graph as scripts/seed_minimal.py starts it: a company and its event
SeededStore ==
    upsert_event(upsert_company(EmptyStore, NameNv, None, 0).G,
                 CidNv, PeriodQ3, Earnings, None, 0).G

InitStore ==
    /\ store \in {EmptyStore, SeededStore}
    /\ clock = 0
    /\ lastCall = NoCall
    /\ opCount = 0
    /\ run = NoRun
    /\ history = <<>>
    /\ world = NoWorld
    /\ fc = NoCheck

NextStore ==
    \/ UpsertCompany
    \/ UpsertEvent
    \/ UpsertSource
    \/ LinkSourceMentionsCompany
    \/ UpsertClaim
    \/ UpsertSignal
    \/ UpsertClaimAndLinks

SpecStore == InitStore /\ [][NextStore]_vars

-----------------------------------------------------------------------------
(* Merge layer: what a caller can observe, and the claims about it *)

Without(props, ks) == [x \in (DOMAIN props) \ ks |-> props[x]]

\* the graph apart from the properties ks of the nodes labelled in labels
Hide(G, labels, ks) ==
    [nodes |-> {IF n.label \in labels THEN [n EXCEPT !.props = Without(@, ks)] ELSE n
                : n \in G.nodes},
     edges |-> G.edges]

Labels == {"Company", "Event", "Source", "Claim", "Signal"}

\* the observable state, apart from last_updated_at
Observable(G) == Hide(G, Labels, {"last_updated_at"})

\* the entity a merge call writes
EntityOps ==
    {"upsert_company", "upsert_event", "upsert_source", "upsert_claim",
     "upsert_signal", "upsert_claim_and_links"}

EntityLabel(op) ==
    CASE op = "upsert_company" -> "Company"
      [] op = "upsert_event" -> "Event"
      [] op = "upsert_source" -> "Source"
      [] op = "upsert_signal" -> "Signal"
      [] OTHER -> "Claim"

MergedId(lc) ==
    IF lc.call.op = "upsert_claim_and_links" THEN claim_id(lc.call.a[4]) ELSE lc.ret[1]

MergedNodes(lc, G) == Match(G, EntityLabel(lc.call.op), MergedId(lc))

Called == lastCall.call.op # "none"

\* the same call once more, now or an hour later
Again(t) == Apply(lastCall.call, store, t)

DefaultsComputedAt(call) == call.op = "upsert_signal" /\ IsNone(call.a[7])

\* C8 (as stated): a merge call made a second time with the same arguments
\* leaves the store as the first call left it, apart from last_updated_at,
\* and every relationship it merges exists once.
C8_SecondCallChangesNothing ==
    Called =>
        \A t \in {clock, clock + 1} :
            /\ Observable(Again(t).G) = Observable(store)
            /\ \A e \in DOMAIN Again(t).G.edges : Again(t).G.edges[e] = 1

\* C8 (amended): as above, apart from last_updated_at and, for upsert_signal
\* called without computed_at, the Signal's computed_at, which that call sets
\* to the time of the call.
C8_SecondCallChangesNothingButTimes ==
    Called =>
        \A t \in {clock, clock + 1} :
            /\ IF DefaultsComputedAt(lastCall.call)
               THEN Hide(Observable(Again(t).G), {"Signal"}, {"computed_at"})
                    = Hide(Observable(store), {"Signal"}, {"computed_at"})
               ELSE Observable(Again(t).G) = Observable(store)
            /\ \A e \in DOMAIN Again(t).G.edges : Again(t).G.edges[e] = 1

\* C8 witness: a claim has just been merged with its links a second time,
\* over the node and the edges the first merge made
C8_Witness ==
    /\ lastCall.call.op = "upsert_claim_and_links"
    /\ MergedNodes(lastCall, lastCall.before) # {}
    /\ \E e \in DOMAIN lastCall.before.edges : e.type = "SUPPORTS"
    /\ Observable(lastCall.before) = Observable(store)

\* C10: a merge of a Company, Event, Source, Claim or Signal leaves the merged
\* node with last_updated_at equal to the time of the merge.
C10_MergeSetsLastUpdatedAt ==
    (Called /\ lastCall.call.op \in EntityOps /\ ~lastCall.raised) =>
        /\ MergedNodes(lastCall, store) # {}
        /\ \A n \in MergedNodes(lastCall, store) :
               Get(n.props, "last_updated_at") = Some(lastCall.at)

NodesOf(G, label) == {n \in G.nodes : n.label = label}

\* the nodes an edge of the type leads to from n, and those it comes from
Targets(G, n, type) == {e.to : e \in {x \in DOMAIN G.edges : x.from = n.nid /\ x.type = type}}
Origins(G, n, type) == {e.from : e \in {x \in DOMAIN G.edges : x.to = n.nid /\ x.type = type}}

\* C17: the store holds at most one Event per (company, event type, period),
\* at most one Signal per (company, event, signal type, window) and at most
\* one Source per trimmed URL.
C17_OneNodePerKey ==
    /\ \A n, m \in NodesOf(store, "Event") :
          (/\ Get(n.props, "type") = Get(m.props, "type")
           /\ Get(n.props, "period") = Get(m.props, "period")
           /\ Origins(store, n, "HAS_EVENT") = Origins(store, m, "HAS_EVENT")) => n = m
    /\ \A n, m \in NodesOf(store, "Signal") :
          (/\ Get(n.props, "signal_type") = Get(m.props, "signal_type")
           /\ Get(n.props, "window") = Get(m.props, "window")
           /\ Targets(store, n, "ABOUT") = Targets(store, m, "ABOUT")
           /\ Targets(store, n, "IN_WINDOW") = Targets(store, m, "IN_WINDOW")) => n = m
    /\ \A n, m \in NodesOf(store, "Source") :
          Strip(n.props["url"]) = Strip(m.props["url"]) => n = m

\* C17 witness: a Source has been merged again under a URL that differs in
\* surrounding space, in a store that holds an Event and a Signal
C17_Witness ==
    /\ lastCall.call.op = "upsert_source"
    /\ \E n \in NodesOf(lastCall.before, "Source") :
          /\ n.props["url"] # lastCall.call.a[1].url
          /\ Strip(n.props["url"]) = Strip(lastCall.call.a[1].url)
    /\ NodesOf(store, "Event") # {}
    /\ NodesOf(store, "Signal") # {}

\* the optional fields a merge call supplies, each with the value supplied
Supplied(call) ==
    CASE call.op = "upsert_source" ->
            << <<"site_name", call.a[1].site_name>>, <<"author", call.a[1].author>>,
               <<"language", call.a[1].language>>, <<"query", call.a[1].query>>,
               <<"published_at", call.a[1].published_at>> >>
      [] call.op = "upsert_event" -> << <<"event_date", call.a[4]>> >>
      [] call.op = "upsert_claim_and_links" ->
            << <<"timeframe", call.a[4].timeframe>>, <<"value", call.a[4].value>>,
               <<"unit", call.a[4].unit>> >>
      [] OTHER -> <<>>

\* C20: a merge of a Source, an Event or, through upsert_claim_and_links, a
\* Claim that matches an existing node leaves every optional field for which
\* it supplies no value as it was.
C20_AbsentFieldKeepsStoredValue ==
    (/\ lastCall.call.op \in {"upsert_source", "upsert_event", "upsert_claim_and_links"}
     /\ ~lastCall.raised) =>
        \A old \in MergedNodes(lastCall, lastCall.before),
           new \in MergedNodes(lastCall, store) :
            \A x \in DOMAIN Supplied(lastCall.call) :
                (old.nid = new.nid /\ IsNone(Supplied(lastCall.call)[x][2])) =>
                    Get(new.props, Supplied(lastCall.call)[x][1])
                        = Get(old.props, Supplied(lastCall.call)[x][1])

-----------------------------------------------------------------------------
(* The two claim writes, upsert_claim and upsert_claim_and_links, over a    *)
(* graph that holds the company, its event and two sources                  *)

UrlW == <<"w">>
SidW == _stable_id_from_url(UrlW)

SourcedStore ==
    upsert_source(
        upsert_source(SeededStore,
                      Doc(UrlU, <<"T">>, <<"news">>, 0, None, None, Some(QueryQ)), 0).G,
        Doc(UrlW, <<"V">>, <<"news">>, 0, None, None, Some(QueryQ)), 0).G

\* a claim with a value; the same claim in other case and spacing, without
\* value; the same text under another claim type; and the same text without
\* timeframe, as None and as ""
ClaimFirst ==
    WithValue(MkClaim(NameNv, PeriodQ3, <<"R">>, <<"revenue">>, Some(<<"F">>), 8, <<"x">>),
              Some(3), Some(<<"%">>))

ClaimAgain ==
    MkClaim(Lower(NameNv), PeriodQ3, <<"r", " ">>, <<"revenue">>, Some(<<"f">>), 5, <<"y">>)

ClaimInputs ==
    {ClaimFirst, ClaimAgain,
     MkClaim(NameNv, PeriodQ3, <<"R">>, <<"eps">>, Some(<<"F">>), 8, <<"x">>),
     MkClaim(NameNv, PeriodQ3, <<"R">>, <<"revenue">>, None, 8, <<"x">>),
     MkClaim(NameNv, PeriodQ3, <<"R">>, <<"revenue">>, Some(<<>>), 8, <<"x">>)}

\* confidence in tenths: 15 is 1.5
WriteClaimCalls ==
    {[op |-> "upsert_claim", a |-> <<CidNv, EidQ3, SidU, <<"R">>, c[1], c[2]>>]
     : c \in {<< <<"revenue">>, 8 >>, << <<"eps">>, 8 >>, << <<"revenue">>, 15 >>}}

\* the second source yields the first claim, in either spelling
WriteClaimAndLinksCalls ==
    {[op |-> "upsert_claim_and_links", a |-> <<CidNv, SidU, PeriodQ3, claim>>]
     : claim \in ClaimInputs}
    \cup {[op |-> "upsert_claim_and_links", a |-> <<CidNv, SidW, PeriodQ3, claim>>]
          : claim \in {ClaimFirst, ClaimAgain}}

WriteClaim == \E c \in WriteClaimCalls : Call(c)

WriteClaimAndLinks == \E c \in WriteClaimAndLinksCalls : Call(c)

InitClaims ==
    /\ store = SourcedStore
    /\ clock = 0
    /\ lastCall = NoCall
    /\ opCount = 0
    /\ run = NoRun
    /\ history = <<>>
    /\ world = NoWorld
    /\ fc = NoCheck

NextClaims ==
    \/ WriteClaim
    \/ WriteClaimAndLinks

SpecClaims == InitClaims /\ [][NextClaims]_vars

\* the Sources with a SUPPORTS edge to the claim
Supporters(G, cl) ==
    {sn \in G.nodes :
        sn.label = "Source" /\ Edge(sn.nid, "SUPPORTS", cl.nid, None) \in DOMAIN G.edges}

\* C14: after a source has yielded a claim, the store holds exactly one Claim
\* node of that identity, supported once by that source and still by every
\* source that supported a claim of that identity before.
C14_OneClaimManySources ==
    lastCall.call.op = "upsert_claim_and_links" =>
        LET id == claim_id(lastCall.call.a[4])
        IN  /\ Cardinality(Match(store, "Claim", id)) = 1
            /\ \A cl \in Match(store, "Claim", id) :
                  /\ Match(store, "Source", lastCall.call.a[2]) \subseteq Supporters(store, cl)
                  /\ \A old \in Match(lastCall.before, "Claim", id) :
                        /\ old.nid = cl.nid
                        /\ Supporters(lastCall.before, old) \subseteq Supporters(store, cl)
                  /\ \A sn \in Supporters(store, cl) :
                        store.edges[Edge(sn.nid, "SUPPORTS", cl.nid, None)] = 1

\* C14 witness: the second source has yielded, in another spelling, a claim
\* that only the first source supported
C14_Witness ==
    /\ lastCall.call.op = "upsert_claim_and_links"
    /\ lastCall.call.a[2] = SidW
    /\ \E old \in Match(lastCall.before, "Claim", claim_id(lastCall.call.a[4])) :
          /\ Supporters(lastCall.before, old) = Match(lastCall.before, "Source", SidU)
          /\ Get(old.props, "text") # Some(lastCall.call.a[4].text)
    /\ \E cl \in Match(store, "Claim", claim_id(lastCall.call.a[4])) :
          Supporters(store, cl) = Match(store, "Source", SidU) \cup Match(store, "Source", SidW)

\* trim and lowercase
Norm(s) == Lower(Strip(s))

\* the period of the event a claim is written under
EventPeriod(G, event_id) ==
    (CHOOSE e \in Match(G, "Event", event_id) : TRUE).props["period"]

\* the identity fields of a claim write: company, period, claim type,
\* timeframe or empty, text, normalized
ClaimKey(call, G) ==
    IF call.op = "upsert_claim_and_links"
    THEN <<call.a[1], Norm(call.a[4].period), Norm(call.a[4].claim_type),
           Norm(OrEmpty(call.a[4].timeframe)), Norm(call.a[4].text)>>
    ELSE <<call.a[1], Norm(EventPeriod(G, call.a[2])), Norm(call.a[5]),
           <<>>, Norm(call.a[4])>>

\* the id of the Claim node a claim write merges
TargetId(call, G) ==
    IF call.op = "upsert_claim_and_links" THEN claim_id(call.a[4])
    ELSE Apply(call, G, 0).ret[1]

SameKeySameNode(c, d, G) ==
    (ClaimKey(c, G) = ClaimKey(d, G)) <=> (TargetId(c, G) = TargetId(d, G))

\* C16: a claim write and any other claim write, through either write path,
\* merge the same Claim node exactly when they agree on company, period,
\* claim type, timeframe-or-empty and text after normalization.
C16_ClaimIdFromIdentityFields ==
    lastCall.call.op \in {"upsert_claim", "upsert_claim_and_links"} =>
        /\ \A c \in WriteClaimCalls : SameKeySameNode(lastCall.call, c, store)
        /\ \A c \in WriteClaimAndLinksCalls : SameKeySameNode(lastCall.call, c, store)

\* C18: every Claim node has a confidence from 0 to 1 (0 to 10 tenths), and
\* a claim write with direction 'unknown' does not raise.
C18_ConfidenceWithinUnitInterval ==
    /\ \A n \in store.nodes :
          n.label = "Claim" =>
              /\ "confidence" \in DOMAIN n.props
              /\ n.props["confidence"] \in 0..10
    /\ (lastCall.call.op = "upsert_claim_and_links"
           /\ lastCall.call.a[4].direction = <<"unknown">>) => ~lastCall.raised

\* C11: a node that has a created_at keeps it through every later merge
\* operation on the store.
C11_CreatedAtIsImmutable ==
    \A n \in lastCall.before.nodes :
        "created_at" \in DOMAIN n.props =>
            \E m \in store.nodes :
                m.nid = n.nid /\ Get(m.props, "created_at") = Get(n.props, "created_at")

\* C11 witness: a merge has matched a node created an hour or more before and
\* has rewritten its last_updated_at
C11_Witness ==
    \E n \in lastCall.before.nodes, m \in store.nodes :
        /\ m.nid = n.nid
        /\ "created_at" \in DOMAIN n.props
        /\ n.props["created_at"] < lastCall.at
        /\ Get(m.props, "last_updated_at") = Some(lastCall.at)
        /\ Get(n.props, "last_updated_at") # Some(lastCall.at)

-----------------------------------------------------------------------------
(* graph/queries.py get_claims_with_sources.  ORDER BY leaves the order of  *)
(* rows with equal keys open, so the query is the set of its possible       *)
(* results.                                                                 *)

\* limit: int = 15
ClaimsLimit == 15

HasEdge(G, from, type, to) ==
    \E e \in DOMAIN G.edges : e.from = from /\ e.type = type /\ e.to = to

\* MATCH (c:Company {id})-[:HAS_EVENT]->(e:Event {period}) MATCH (e)-[:HAS_CLAIM]->(cl:Claim)
QueryClaims(G, company_id, period) ==
    {cl \in G.nodes :
        /\ cl.label = "Claim"
        /\ \E c \in Match(G, "Company", company_id), e \in G.nodes :
               /\ e.label = "Event" /\ Get(e.props, "period") = Some(period)
               /\ HasEdge(G, c.nid, "HAS_EVENT", e.nid)
               /\ HasEdge(G, e.nid, "HAS_CLAIM", cl.nid)}

\* OPTIONAL MATCH (s:Source)-[:SUPPORTS]->(cl) ... collect(DISTINCT s{...})
QuerySources(G, cl) ==
    {[url |-> Get(sn.props, "url"), title |-> Get(sn.props, "title"),
      source_type |-> Get(sn.props, "source_type"),
      published_at |-> Get(sn.props, "published_at"),
      fetched_at |-> Get(sn.props, "fetched_at")]
     : sn \in {x \in G.nodes : x.label = "Source" /\ HasEdge(G, x.nid, "SUPPORTS", cl.nid)}}

\* cl { .id, .text, .claim_type, .confidence, .last_updated_at, sources: sources }
QueryRow(G, cl) ==
    [id |-> Get(cl.props, "id"), text |-> Get(cl.props, "text"),
     claim_type |-> Get(cl.props, "claim_type"),
     confidence |-> Get(cl.props, "confidence"),
     last_updated_at |-> Get(cl.props, "last_updated_at"),
     sources |-> QuerySources(G, cl)]

\* ORDER BY x DESC: a comes before b; null sorts first
DescBefore(a, b) ==
    \/ IsNone(a) /\ ~IsNone(b)
    \/ ~IsNone(a) /\ ~IsNone(b) /\ a[1] > b[1]

\* ORDER BY cl.confidence DESC, cl.last_updated_at DESC
RowBefore(x, y) ==
    \/ DescBefore(x.confidence, y.confidence)
    \/ x.confidence = y.confidence /\ DescBefore(x.last_updated_at, y.last_updated_at)

Orders(S) ==
    {f \in [1..Cardinality(S) -> S] :
        /\ \A i, j \in 1..Cardinality(S) : i # j => f[i] # f[j]
        /\ \A i, j \in 1..Cardinality(S) : i < j => ~RowBefore(f[j], f[i])}

get_claims_with_sources(G, company_id, period, limit) ==
    {Take(rows, limit) :
        rows \in Orders({QueryRow(G, cl) : cl \in QueryClaims(G, company_id, period)})}

\* MATCH (e)-[:HAS_CLAIM]->(cl:Claim)<-[:SUPPORTS]-(s:Source)
FetchedSources(G, company_id, period) ==
    {sn \in G.nodes :
        /\ sn.label = "Source"
        /\ \E cl \in QueryClaims(G, company_id, period) :
               HasEdge(G, sn.nid, "SUPPORTS", cl.nid)}

\* max(datetime(s.fetched_at)): nulls are skipped, null when nothing is left
LastFetched(srcs) ==
    LET times == {Get(sn.props, "fetched_at")[1] :
                    sn \in {x \in srcs : ~IsNone(Get(x.props, "fetched_at"))}}
    IN  IF times = {} THEN None
        ELSE Some(CHOOSE t \in times : \A u \in times : u <= t)

\* WITH s.source_type AS source_type, max(...) AS last_fetched: one row per
\* source_type
get_latest_fetch_by_type(G, company_id, period) ==
    LET srcs == FetchedSources(G, company_id, period)
    IN  {[source_type |-> t,
          last_fetched |-> LastFetched({sn \in srcs : Get(sn.props, "source_type") = t})]
         : t \in {Get(sn.props, "source_type") : sn \in srcs}}

\* the Claim nodes a write has linked to the company for the period: through
\* the company's event of that period or by a HAS_CLAIM edge of that period
StoredClaims(G, company_id, period) ==
    QueryClaims(G, company_id, period)
    \cup {cl \in G.nodes :
            /\ cl.label = "Claim"
            /\ \E c \in Match(G, "Company", company_id) :
                   Edge(c.nid, "HAS_CLAIM", cl.nid, Some(period)) \in DOMAIN G.edges}

\* C12: get_claims_with_sources has one possible result; it lists every Claim
\* stored for the company and period, whichever write stored it, by
\* confidence descending and then by last_updated_at descending.
C12_ClaimsQueryOrder ==
    LET results == get_claims_with_sources(store, CidNv, PeriodQ3, ClaimsLimit)
    IN  /\ Cardinality(results) = 1
        /\ \A rows \in results :
              /\ {rows[k].id : k \in DOMAIN rows}
                     = {Get(cl.props, "id") : cl \in StoredClaims(store, CidNv, PeriodQ3)}
              /\ \A k \in DOMAIN rows : ~IsNone(rows[k].last_updated_at)
              /\ \A i, j \in DOMAIN rows :
                     i < j =>
                        \/ rows[i].confidence[1] > rows[j].confidence[1]
                        \/ /\ rows[i].confidence = rows[j].confidence
                           /\ rows[i].last_updated_at[1] >= rows[j].last_updated_at[1]

-----------------------------------------------------------------------------
(* ingest/brightdata.py and extract/llm_claims.py: what the run does with   *)
(* the answers of the external services                                     *)

SerpResult(url, title) == [url |-> url, title |-> title]

\* mutant: the loop without its break at max_results
RECURSIVE SerpScan_NoBreak(_, _, _)
SerpScan_NoBreak(items, results, max_results) ==
    IF Len(items) = 0 THEN results
    ELSE LET link == items[1].link
         IN  IF IsNone(link) \/ Len(link[1]) = 0 \/ link[1][1] = "/"
             THEN SerpScan_NoBreak(Tail(items), results, max_results)
             ELSE SerpScan_NoBreak(Tail(items),
                                   Append(results, SerpResult(link[1], items[1].title)),
                                   max_results)

\* the loop of google_serp_urls over candidates[: max_results * 2]
RECURSIVE SerpScan(_, _, _)
SerpScan(items, results, max_results) ==
    IF Len(items) = 0 THEN results
    ELSE LET link == items[1].link
         IN  IF IsNone(link) \/ Len(link[1]) = 0 \/ link[1][1] = "/"
             THEN SerpScan(Tail(items), results, max_results)
             ELSE LET more == Append(results, SerpResult(link[1], items[1].title))
                  IN  IF Len(more) >= max_results THEN more
                      ELSE SerpScan(Tail(items), more, max_results)

google_serp_urls(candidates, max_results) ==
    SerpScan(SubSeq(candidates, 1,
                    IF Len(candidates) < max_results * 2 THEN Len(candidates)
                    ELSE max_results * 2),
             <<>>, max_results)

\* max_results: int = 8
DefaultMaxResults == 8

\* max_results as refresh_company_period passes it
RefreshMaxResults == 1

\* errors[:3]
ErrorSample == 3

_earnings_query(company_name, period) ==
    company_name \o <<" ">> \o period
        \o <<" ", "earnings recap guidance revenue EPS reaction">>

\* the SourceDoc built from a result and its fetched markdown (raw_text is
\* never written to the graph and is left out)
MakeDoc(r, serp_query, now) ==
    Doc(r.url, IF IsNone(r.title) \/ Len(r.title[1]) = 0 THEN r.url ELSE r.title[1],
        <<"news">>, now, None, None, Some(serp_query))

\* extract_claims_from_source_openai: one Claim per ClaimOut of the payload
PayloadClaims(payload, company_name, period) ==
    [k \in 1..Len(payload) |->
        MkClaim(company_name, period, payload[k].text, payload[k].claim_type,
                payload[k].timeframe, payload[k].confidence, payload[k].evidence)]

ClaimOut(text, claim_type, timeframe, confidence, evidence) ==
    [text |-> text, claim_type |-> claim_type, timeframe |-> timeframe,
     confidence |-> confidence, evidence |-> evidence]

\* payloads the schema accepts: confidence within 0..10 tenths, evidence any
\* string.  The second has the identity of the first and no evidence.
ClaimOuts ==
    {ClaimOut(<<"R">>, <<"revenue">>, Some(<<"F">>), 8, <<"x">>),
     ClaimOut(<<"r", " ">>, <<"revenue">>, Some(<<"f">>), 5, <<>>),
     ClaimOut(<<"E">>, <<"eps">>, None, 5, <<"y">>)}

SeqsUpTo(S, n) == UNION {[1..k -> S] : k \in 0..n}

\* "Max 10 claims", as the prompt asks
ClaimCap == 10

\* an answer of the model with one claim more than the prompt allows
LongPayload ==
    [k \in 1..(ClaimCap + 1) |->
        ClaimOut(<<Lowercase[k]>>, <<"other">>, None, 5, <<"x">>)]

Payloads == SeqsUpTo(ClaimOuts, MaxClaims)

\* a result and a link the filter drops
SerpItems ==
    {[link |-> Some(UrlU), title |-> Some(<<"T">>)],
     [link |-> Some(<<"/", "x">>), title |-> None]}

CandidateLists == SeqsUpTo(SerpItems, MaxCandidates)

GraphWrites == {"upsert_source", "upsert_claim_and_links", "link_source_mentions_company"}

-----------------------------------------------------------------------------
(* ingest/refresh.py refresh_company_period, one step per external call *)

Locals(company_id, company_name, period, G) ==
    [pc |-> "discover", company_id |-> company_id, company_name |-> company_name,
     period |-> period, serp_query |-> _earnings_query(company_name, period),
     serp_results |-> <<>>, i |-> 1, upserted |-> 0, docs |-> <<>>, errors |-> <<>>,
     sid |-> None, claims |-> <<>>, j |-> 1,
     before |-> G, discover_calls |-> 0, fetch_calls |-> 0, extract_calls |-> 0]

\* the record kept of a finished run
Finished(r, outcome, failure, summary, G) ==
    [outcome |-> outcome, failure |-> failure, summary |-> summary,
     company_id |-> r.company_id, company_name |-> r.company_name, period |-> r.period,
     serp_results |-> r.serp_results, docs |-> r.docs, errors |-> r.errors,
     claims |-> r.claims, upserted |-> r.upserted, before |-> r.before, after |-> G,
     discover_calls |-> r.discover_calls, fetch_calls |-> r.fetch_calls,
     extract_calls |-> r.extract_calls]

\* except Exception as e: errors.append({"url": r.url, "error": str(e)}); raise e
OnItemError(r, error, G) ==
    Finished([r EXCEPT !.errors = Append(@, [url |-> r.serp_results[r.i].url,
                                             error |-> error])],
             "raised", error, None, G)

\* mutant: upserted is counted once per merged claim
Summary_PerClaim(r, now) ==
    [company |-> r.company_name, period |-> r.period, query |-> r.serp_query,
     discovered_urls |-> Len(r.serp_results), fetched_docs |-> Len(r.docs),
     upserted_sources |-> r.upserted * Len(r.claims),
     errors |-> Take(r.errors, ErrorSample), refreshed_at |-> now]

Summary(r, now) ==
    [company |-> r.company_name, period |-> r.period, query |-> r.serp_query,
     discovered_urls |-> Len(r.serp_results), fetched_docs |-> Len(r.docs),
     upserted_sources |-> r.upserted, errors |-> Take(r.errors, ErrorSample),
     refreshed_at |-> now]

Running(pc) == run.pc = pc

\* the caller's arguments (api/main.py ask): the company as the graph holds it
StoredName(G, company_id) ==
    (CHOOSE c \in Match(G, "Company", company_id) : TRUE).props["name"]

\* llm_client = OpenAI(): raises when no API key is configured
StartRun ==
    /\ Running("idle")
    /\ Len(history) < MaxRuns
    /\ \E now \in {clock, clock + 1},
          key \in IF IsNone(world.llm_key) THEN BOOLEAN ELSE {world.llm_key[1]} :
        /\ now <= MaxTime
        /\ clock' = now
        /\ world' = [world EXCEPT !.llm_key = Some(key)]
        /\ LET r == Locals(CidNv, StoredName(store, CidNv), PeriodQ3, store)
           IN  IF key
               THEN run' = r /\ history' = history
               ELSE /\ run' = NoRun
                    /\ history' = Append(history, Finished(r, "raised", "config", None, store))
    /\ UNCHANGED <<store, lastCall, opCount, fc>>

\* for r in serp_results: the loop starts, or with no result the run returns
StartLoop(r, found) ==
    [run |-> [r EXCEPT !.serp_results = found,
                       !.pc = IF Len(found) = 0 THEN "return" ELSE "fetch"],
     finished |-> None]

\* mutant: a failed discovery is taken for an empty result list
AfterDiscovery_Swallow(r, answer, G) ==
    StartLoop(r, google_serp_urls(answer.candidates, RefreshMaxResults))

\* serp_results = google_serp_urls(...) is outside the try: when it raises,
\* the run raises
AfterDiscovery(r, answer, G) ==
    IF answer.fails
    THEN [run |-> NoRun, finished |-> Some(Finished(r, "raised", "discovery", None, G))]
    ELSE StartLoop(r, google_serp_urls(answer.candidates, RefreshMaxResults))

\* serp_results = google_serp_urls(serp_query, max_results=1, tbm="nws")
Discover ==
    /\ Running("discover")
    /\ \E answer \in IF IsNone(world.discovery)
                     THEN {[fails |-> TRUE, candidates |-> <<>>]}
                          \cup {[fails |-> FALSE, candidates |-> c] : c \in CandidateLists}
                     ELSE {world.discovery[1]} :
        /\ world' = [world EXCEPT !.discovery = Some(answer)]
        /\ LET out == AfterDiscovery([run EXCEPT !.discover_calls = @ + 1], answer, store)
           IN  /\ run' = out.run
               /\ history' = history \o out.finished
    /\ UNCHANGED <<store, clock, lastCall, opCount, fc>>

\* md = unlock_to_markdown(r.url, country="us"); doc = SourceDoc(...); docs.append(doc)
Fetch ==
    /\ Running("fetch")
    /\ LET url == run.serp_results[run.i].url
           r == [run EXCEPT !.fetch_calls = @ + 1]
       IN  \E ok \in IF url \in DOMAIN world.fetch THEN {world.fetch[url]} ELSE BOOLEAN :
            /\ world' = [world EXCEPT !.fetch = (url :> ok) @@ @]
            /\ IF ok
               THEN /\ run' = [r EXCEPT
                                 !.docs = Append(@, MakeDoc(run.serp_results[run.i],
                                                            run.serp_query, clock)),
                                 !.pc = "upsert_source"]
                    /\ history' = history
               ELSE /\ run' = NoRun
                    /\ history' = Append(history, OnItemError(r, "fetch", store))
    /\ UNCHANGED <<store, clock, lastCall, opCount, fc>>

\* whether the graph write named fails (a driver error), the same in every run
GraphAnswers == IF IsNone(world.graph) THEN GraphWrites \cup {"none"} ELSE {world.graph[1]}

\* source_id = upsert_source(driver, doc)
UpsertSourceStep ==
    /\ Running("upsert_source")
    /\ \E failing \in GraphAnswers :
        /\ world' = [world EXCEPT !.graph = Some(failing)]
        /\ IF failing = "upsert_source"
           THEN /\ run' = NoRun
                /\ history' = Append(history, OnItemError(run, "graph", store))
                /\ store' = store
           ELSE LET res == upsert_source(store, run.docs[Len(run.docs)], clock)
                IN  /\ store' = res.G
                    /\ run' = [run EXCEPT !.sid = res.ret, !.pc = "extract"]
                    /\ history' = history
    /\ UNCHANGED <<clock, lastCall, opCount, fc>>

\* claims = extract_claims_from_source_openai(...)
Extract ==
    /\ Running("extract")
    /\ \E answer \in IF IsNone(world.extract)
                     THEN {None, Some(LongPayload)} \cup {Some(p) : p \in Payloads}
                     ELSE {world.extract[1]} :
        /\ world' = [world EXCEPT !.extract = Some(answer)]
        /\ LET r == [run EXCEPT !.extract_calls = @ + 1]
           IN  IF IsNone(answer)
               THEN /\ run' = NoRun
                    /\ history' = Append(history, OnItemError(r, "extract", store))
               ELSE /\ run' = [r EXCEPT
                                 !.claims = PayloadClaims(answer[1], run.company_name,
                                                          run.period),
                                 !.j = 1,
                                 !.pc = IF Len(answer[1]) = 0 THEN "link"
                                        ELSE "upsert_claim"]
                    /\ history' = history
    /\ UNCHANGED <<store, clock, lastCall, opCount, fc>>

\* for claim in claims: upsert_claim_and_links(...)
UpsertClaimStep ==
    /\ Running("upsert_claim")
    /\ IF world.graph[1] = "upsert_claim_and_links"
       THEN /\ run' = NoRun
            /\ history' = Append(history, OnItemError(run, "graph", store))
            /\ store' = store
       ELSE /\ store' = upsert_claim_and_links(store, run.company_id, run.sid[1],
                                               run.period, run.claims[run.j]).G
            /\ run' = [run EXCEPT !.j = @ + 1,
                                  !.pc = IF run.j = Len(run.claims) THEN "link"
                                         ELSE "upsert_claim"]
            /\ history' = history
    /\ UNCHANGED <<clock, lastCall, opCount, world, fc>>

\* link_source_mentions_company(driver, source_id, company_id); upserted += 1
LinkStep ==
    /\ Running("link")
    /\ IF world.graph[1] = "link_source_mentions_company"
       THEN /\ run' = NoRun
            /\ history' = Append(history, OnItemError(run, "graph", store))
            /\ store' = store
       ELSE /\ store' = link_source_mentions_company(store, run.sid[1], run.company_id).G
            /\ run' = [run EXCEPT !.upserted = @ + 1, !.i = @ + 1,
                                  !.pc = IF run.i = Len(run.serp_results) THEN "return"
                                         ELSE "fetch"]
            /\ history' = history
    /\ UNCHANGED <<clock, lastCall, opCount, world, fc>>

\* return {...}
Return ==
    /\ Running("return")
    /\ run' = NoRun
    /\ history' = Append(history,
                         Finished(run, "returned", "none", Some(Summary(run, clock)), store))
    /\ UNCHANGED <<store, clock, lastCall, opCount, world, fc>>

\* the graph holds the company and its event before any refresh is asked for
\* (api/main.py looks the company up first)
Init ==
    /\ store = SeededStore
    /\ clock = 0
    /\ lastCall = NoCall
    /\ opCount = 0
    /\ run = NoRun
    /\ history = <<>>
    /\ world = NoWorld
    /\ fc = NoCheck

Next ==
    \/ StartRun
    \/ Discover
    \/ Fetch
    \/ UpsertSourceStep
    \/ Extract
    \/ UpsertClaimStep
    \/ LinkStep
    \/ Return

Spec == Init /\ [][Next]_vars

-----------------------------------------------------------------------------
(* Refresh run: the claims about it *)

Range(seq) == {seq[k] : k \in DOMAIN seq}

Failed(h, kind) == \E e \in Range(h.errors) : e.error = kind

FailedUrls(h, kind) == {e.url : e \in {x \in Range(h.errors) : x.error = kind}}

\* C1: a run in which the fetch of a candidate failed has recorded the failure
\* against the URL and has ended by returning a summary.
C1_FetchFailureIsRecovered ==
    \A k \in DOMAIN history :
        Failed(history[k], "fetch") =>
            /\ history[k].outcome = "returned"
            /\ ~IsNone(history[k].summary)

\* a node is one identity: its label and its id property (and its handle)
NodeIdentities(G) == {<<n.nid, n.label, n.props["id"]>> : n \in G.nodes}

\* two runs with the same arguments that met the same results and claims
SameRun(a, b) ==
    /\ a.company_id = b.company_id
    /\ a.company_name = b.company_name
    /\ a.period = b.period
    /\ a.serp_results = b.serp_results
    /\ a.claims = b.claims

Succeeded(h) == h.outcome = "returned" /\ h.errors = <<>>

\* C2: when a successful run is followed by an identical successful run, the
\* second leaves the node identities and the edges of the store as the first
\* left them.
C2_RerunAddsNothing ==
    \A k \in DOMAIN history :
        (k > 1 /\ Succeeded(history[k - 1]) /\ Succeeded(history[k])
               /\ SameRun(history[k - 1], history[k])) =>
            /\ NodeIdentities(history[k].after) = NodeIdentities(history[k - 1].after)
            /\ Cardinality(history[k].after.nodes) = Cardinality(history[k - 1].after.nodes)
            /\ history[k].after.edges = history[k - 1].after.edges

\* C2 witness: a run that merged a source and two claims has been run again
C2_Witness ==
    /\ Len(history) >= 2
    /\ Succeeded(history[1]) /\ Succeeded(history[2])
    /\ SameRun(history[1], history[2])
    /\ history[1].upserted = 1 /\ Len(history[1].claims) = 2
    /\ \E n \in history[2].after.nodes : n.label = "Source"
    /\ \E n \in history[2].after.nodes : n.label = "Claim"
    /\ \E e \in DOMAIN history[2].after.edges : e.type = "SUPPORTS"

\* C3: a run whose discovery failed called discovery once, fetched and
\* extracted nothing, returned no summary and left the store as it found it.
C3_DiscoveryFailureIsFatal ==
    \A k \in DOMAIN history :
        (world.discovery # None /\ world.discovery[1].fails
            /\ history[k].discover_calls > 0) =>
            /\ history[k].outcome = "raised"
            /\ IsNone(history[k].summary)
            /\ history[k].discover_calls = 1
            /\ history[k].fetch_calls = 0
            /\ history[k].extract_calls = 0
            /\ history[k].after = history[k].before

\* C3 witness: a run has ended on a failed discovery
C3_Witness ==
    /\ Len(history) >= 1
    /\ history[1].discover_calls = 1
    /\ world.discovery[1].fails

\* C4: a run in which claim extraction failed for a fetched candidate has
\* recorded the failure against the URL and has ended by returning a summary.
C4_ExtractionFailureIsRecovered ==
    \A k \in DOMAIN history :
        Failed(history[k], "extract") =>
            /\ history[k].outcome = "returned"
            /\ ~IsNone(history[k].summary)

\* C5: a run that discovered n candidates, of which the fetches of k failed
\* and nothing else did, returns a summary with discovered_urls = n,
\* fetched_docs = n - k and an error entry for each failed URL and no other.
C5_SummaryCountsFetchFailures ==
    \A k \in DOMAIN history :
        LET h == history[k] IN
        (h.discover_calls = 1 /\ h.failure \in {"none", "fetch"}) =>
            /\ h.outcome = "returned"
            /\ ~IsNone(h.summary)
            /\ h.summary[1].discovered_urls = Len(h.serp_results)
            /\ h.summary[1].fetched_docs
                   = Len(h.serp_results) - Cardinality(FailedUrls(h, "fetch"))
            /\ {e.url : e \in Range(h.summary[1].errors)} = FailedUrls(h, "fetch")

\* more candidates than twice the default maximum, every one a usable link
ManyCandidates ==
    [k \in 1..(2 * DefaultMaxResults + 1) |-> [link |-> Some(UrlU), title |-> None]]

\* C13: a run calls discovery once, and keeps at most the maximum it asks
\* for, which is within the default of 8, however many candidates the
\* backend returns; with the default the results number at most 8.
C13_DiscoveryOnceAndCapped ==
    /\ RefreshMaxResults <= DefaultMaxResults
    /\ Len(google_serp_urls(ManyCandidates, DefaultMaxResults)) <= DefaultMaxResults
    /\ \A k \in DOMAIN history :
          /\ history[k].discover_calls = IF history[k].failure = "config" THEN 0 ELSE 1
          /\ Len(history[k].serp_results) <= RefreshMaxResults
    /\ ~Running("idle") =>
          /\ run.discover_calls = IF Running("discover") THEN 0 ELSE 1
          /\ Len(run.serp_results) <= RefreshMaxResults

\* C13 witness: discovery returned more usable candidates than the maximum
\* and the run that asked has finished
C13_Witness ==
    /\ Len(history) >= 1
    /\ history[1].discover_calls = 1
    /\ ~world.discovery[1].fails
    /\ Len(world.discovery[1].candidates) > RefreshMaxResults
    /\ \A k \in DOMAIN world.discovery[1].candidates :
          world.discovery[1].candidates[k].link = Some(UrlU)
    /\ Len(history[1].serp_results) = RefreshMaxResults

\* every node identity and every edge of G is in H
Within(G, H) ==
    /\ NodeIdentities(G) \subseteq NodeIdentities(H)
    /\ \A e \in DOMAIN G.edges : e \in DOMAIN H.edges /\ H.edges[e] >= G.edges[e]

\* C19: no step of a refresh run removes a node or an edge from the store:
\* the node identities and the edges before the step are there after it.
C19_NothingIsDeleted == [][Within(store, store')]_vars

\* C19 witness: a run has returned that found a Source and a Claim in the
\* store, wrote both again an hour or more later, and left every node and
\* edge it found
C19_Witness ==
    /\ Len(history) >= 2
    /\ Succeeded(history[2])
    /\ history[2].upserted = 1 /\ Len(history[2].claims) >= 1
    /\ \E n \in history[2].before.nodes : n.label = "Source"
    /\ \E n \in history[2].before.nodes : n.label = "Claim"
    /\ history[2].before.nodes # history[2].after.nodes
    /\ Within(history[2].before, history[2].after)

\* where the URL stands among the results of discovery
Discovered(h, url) == SetMin({k \in DOMAIN h.serp_results : h.serp_results[k].url = url})

C23_GraphWriteFailureIsRecovered ==
    \A k \in DOMAIN history :
        Failed(history[k], "graph") =>
            /\ history[k].outcome = "returned"
            /\ ~IsNone(history[k].summary)

\* C24: when a run has ended, every Source it merged is linked to the company
\* by a MENTIONS edge, whatever became of the claims of that source (the
\* write of the link itself not failing).
C24_MergedSourceMentionsCompany ==
    \A k \in DOMAIN history :
        LET h == history[k] IN
        world.graph # Some("link_source_mentions_company") =>
        \A d \in DOMAIN h.docs :
            \A sn \in Match(h.after, "Source", source_id(h.docs[d])) :
                \E c \in Match(h.after, "Company", h.company_id) :
                    Edge(sn.nid, "MENTIONS", c.nid, None) \in DOMAIN h.after.edges

\* C25: a run merges a claim only when the Source it merged before and the
\* Company are in the store, and every Claim node has a SUPPORTS edge from a
\* Source and a HAS_CLAIM edge from the Company.
C25_ClaimsAreLinked ==
    /\ Running("upsert_claim") =>
          /\ ~IsNone(run.sid)
          /\ Match(store, "Source", run.sid[1]) # {}
          /\ Match(store, "Company", run.company_id) # {}
    /\ \A cl \in store.nodes :
          cl.label = "Claim" =>
              /\ \E e \in DOMAIN store.edges :
                    /\ e.type = "SUPPORTS" /\ e.to = cl.nid
                    /\ \E sn \in store.nodes : sn.label = "Source" /\ sn.nid = e.from
              /\ \E e \in DOMAIN store.edges :
                    /\ e.type = "HAS_CLAIM" /\ e.to = cl.nid
                    /\ e.from \in Nids(Match(store, "Company", CidNv))

\* C25 witness: a run is past its first claim merge and about to make its
\* second, and the store holds the Claim of the first
C25_Witness ==
    /\ Running("upsert_claim")
    /\ run.j = 2
    /\ Match(store, "Claim", claim_id(run.claims[1])) # {}

\* C26: a run merges at most 10 claims for a fetched document.
C26_AtMostTenClaimsPerDocument ==
    ~Running("idle") => run.j - 1 <= ClaimCap

\* C27: after a returned run that fetched a source and merged a claim from
\* it, get_latest_fetch_by_type for the run's company and period has a row
\* for the source's category with the new fetched_at, and
\* get_claims_with_sources returns the merged claim.
C27_ReadsSeeTheRefresh ==
    \A k \in DOMAIN history :
        LET h == history[k]
        IN  (Succeeded(h) /\ h.upserted >= 1 /\ Len(h.claims) >= 1) =>
               /\ \E row \in get_latest_fetch_by_type(h.after, h.company_id, h.period) :
                      /\ row.source_type = Some(h.docs[1].source_type)
                      /\ row.last_fetched = Some(h.docs[1].fetched_at)
               /\ \A rows \in get_claims_with_sources(h.after, h.company_id, h.period,
                                                       ClaimsLimit) :
                      \E i \in DOMAIN rows : rows[i].id = Some(claim_id(h.claims[1]))

\* the candidate's Source is in the graph with its MENTIONS edge to the company
FullyWritten(G, url, company_id) ==
    \E sn \in Match(G, "Source", _stable_id_from_url(url)),
       c \in Match(G, "Company", company_id) :
        HasEdge(G, sn.nid, "MENTIONS", c.nid)

\* C29: in every returned summary upserted_sources <= fetched_docs <=
\* discovered_urls; fetched_docs is the number of candidates whose fetch
\* succeeded and upserted_sources the number of candidates for which every
\* step up to the mentions link succeeded.
C29_SummaryCounts ==
    \A k \in DOMAIN history :
        LET h == history[k]
        IN  h.outcome = "returned" =>
              LET s == h.summary[1]
                  failed == {h.errors[e].url : e \in DOMAIN h.errors}
                  fetchFailed == {e \in DOMAIN h.errors : h.errors[e].error = "fetch"}
              IN  /\ s.upserted_sources <= s.fetched_docs
                  /\ s.fetched_docs <= s.discovered_urls
                  /\ s.discovered_urls = Len(h.serp_results)
                  /\ s.fetched_docs = h.fetch_calls - Cardinality(fetchFailed)
                  /\ s.upserted_sources =
                        Cardinality({i \in DOMAIN h.serp_results :
                                        /\ h.serp_results[i].url \notin failed
                                        /\ FullyWritten(h.after, h.serp_results[i].url,
                                                        h.company_id)})

\* C29 witness: a run returned a summary after one candidate went through
\* fetch, source merge, extraction, two claim merges and the link
C29_Witness ==
    \E k \in DOMAIN history :
        /\ history[k].outcome = "returned"
        /\ history[k].summary[1].discovered_urls = 1
        /\ history[k].summary[1].upserted_sources = 1
        /\ Len(history[k].claims) = 2

\* C9: no Claim node in the store has empty evidence.
C9_NoClaimWithoutEvidence ==
    \A n \in store.nodes :
        n.label = "Claim" => Get(n.props, "evidence") \notin {None, Some(<<>>)}

-----------------------------------------------------------------------------
(* Two refresh runs for the same company and period at once (two requests   *)
(* served by api/main.py).  The runs share nothing but the graph.  Each     *)
(* graph write is one auto-commit Cypher statement, and with the uniqueness *)
(* constraints of graph/schema.py a MERGE on an id is atomic, so the runs   *)
(* interleave statement by statement.                                       *)

\* what the extraction answers to a run: the two answers name one claim in
\* two spellings, with different confidence and evidence
PairPayloads ==
    {<<ClaimOut(<<"R">>, <<"revenue">>, Some(<<"F">>), 8, <<"x">>),
       ClaimOut(<<"E">>, <<"eps">>, None, 5, <<"y">>)>>,
     <<ClaimOut(<<"r", " ">>, <<"revenue">>, Some(<<"f">>), 5, <<"z">>)>>}

\* a run that has discovered the one URL and is about to fetch it
PairRun(payload) ==
    StartLoop(Locals(CidNv, StoredName(SeededStore, CidNv), PeriodQ3, SeededStore),
              google_serp_urls(<<[link |-> Some(UrlU), title |-> Some(<<"T">>)]>>,
                               RefreshMaxResults)).run
    @@ [payload |-> payload]

\* the next statement of the loop body of run r, no call failing: the run
\* after it, the graph after it, and the node it wrote with the values sent
RunStep(r, G, now) ==
    CASE r.pc = "fetch" ->
            [r |-> [r EXCEPT !.fetch_calls = @ + 1,
                             !.docs = Append(@, MakeDoc(r.serp_results[r.i],
                                                        r.serp_query, now)),
                             !.pc = "upsert_source"],
             G |-> G, wrote |-> None]
      [] r.pc = "upsert_source" ->
            LET doc == r.docs[Len(r.docs)]
                res == upsert_source(G, doc, now)
            IN  [r |-> [r EXCEPT !.sid = res.ret, !.pc = "extract"],
                 G |-> res.G,
                 wrote |-> Some([label |-> "Source", id |-> res.ret[1], value |-> doc])]
      [] r.pc = "extract" ->
            [r |-> [r EXCEPT !.extract_calls = @ + 1,
                             !.claims = PayloadClaims(r.payload, r.company_name, r.period),
                             !.j = 1,
                             !.pc = IF Len(r.payload) = 0 THEN "link" ELSE "upsert_claim"],
             G |-> G, wrote |-> None]
      [] r.pc = "upsert_claim" ->
            LET claim == r.claims[r.j]
            IN  [r |-> [r EXCEPT !.j = @ + 1,
                                 !.pc = IF r.j = Len(r.claims) THEN "link"
                                        ELSE "upsert_claim"],
                 G |-> upsert_claim_and_links(G, r.company_id, r.sid[1], r.period, claim).G,
                 wrote |-> Some([label |-> "Claim", id |-> claim_id(claim),
                                 value |-> claim])]
      [] r.pc = "link" ->
            [r |-> [r EXCEPT !.upserted = @ + 1, !.i = @ + 1,
                             !.pc = IF r.i = Len(r.serp_results) THEN "return"
                                    ELSE "fetch"],
             G |-> link_source_mentions_company(G, r.sid[1], r.company_id).G,
             wrote |-> None]
      [] r.pc = "return" ->
            [r |-> [r EXCEPT !.pc = "done"], G |-> G, wrote |-> None]

\* last records, for each node a run wrote, the run that wrote it last, the
\* values that write sent and the runs that have written it
Written(last, i, w) ==
    LET key == <<w.label, w.id>>
    IN  (key :> [by |-> i, value |-> w.value,
                 writers |-> {i} \cup (IF key \in DOMAIN last THEN last[key].writers
                                       ELSE {})])
        @@ last

PairStep(i) ==
    /\ run.pc = "pair"
    /\ run.runs[i].pc # "done"
    /\ LET out == RunStep(run.runs[i], store, clock)
       IN  /\ store' = out.G
           /\ run' = [run EXCEPT
                        !.runs[i] = out.r,
                        !.last = IF IsNone(out.wrote) THEN @
                                 ELSE Written(@, i, out.wrote[1])]
           /\ history' = IF out.r.pc = "done"
                         THEN Append(history,
                                     Finished(out.r, "returned", "none",
                                              Some(Summary(out.r, clock)), store))
                         ELSE history
    /\ UNCHANGED <<clock, lastCall, opCount, world, fc>>

PairStepFirst == PairStep(1)

PairStepSecond == PairStep(2)

\* the wall clock moves while the runs are under way
PairTick ==
    /\ run.pc = "pair"
    /\ \E i \in DOMAIN run.runs : run.runs[i].pc # "done"
    /\ clock < MaxTime
    /\ clock' = clock + 1
    /\ UNCHANGED <<store, lastCall, opCount, run, history, world, fc>>

InitPair ==
    /\ store = SeededStore
    /\ clock = 0
    /\ lastCall = NoCall
    /\ opCount = 0
    /\ \E p1 \in PairPayloads, p2 \in PairPayloads :
          run = [pc |-> "pair", runs |-> <<PairRun(p1), PairRun(p2)>>, last |-> <<>>]
    /\ history = <<>>
    /\ world = NoWorld
    /\ fc = NoCheck

NextPair ==
    \/ PairStepFirst
    \/ PairStepSecond
    \/ PairTick

SpecPair == InitPair /\ [][NextPair]_vars

\* the properties a write of a Source and a write of a Claim send
SentProps(w) ==
    IF w.label = "Claim" THEN ClaimSet(w.value)
    ELSE << Assign("title", Some(w.value.title)),
            Assign("source_type", Some(w.value.source_type)),
            Assign("query", w.value.query),
            Assign("fetched_at", Some(w.value.fetched_at)) >>

\* C15: however the writes of two runs interleave, no two nodes have the same
\* label and id, every edge exists once, and each node a run has written
\* holds, in every field the writes send, the value of the run that wrote it
\* last.
C15_ConcurrentRunsMerge ==
    run.pc = "pair" =>
        /\ \A n, m \in store.nodes :
              (n.label = m.label /\ n.props["id"] = m.props["id"]) => n = m
        /\ \A e \in DOMAIN store.edges : store.edges[e] = 1
        /\ \A key \in DOMAIN run.last :
              /\ Match(store, key[1], key[2]) # {}
              /\ \A n \in Match(store, key[1], key[2]) :
                    LET sent == SentProps([label |-> key[1], value |-> run.last[key].value])
                    IN  \A x \in DOMAIN sent : Get(n.props, sent[x].k) = sent[x].o

\* C15 witness: both runs have returned; they wrote the same Source at
\* different hours and the same Claim with different confidence, and the one
\* run was the last to write the Source, the other the last to write the Claim
C15_Witness ==
    /\ run.pc = "pair"
    /\ \A i \in DOMAIN run.runs : run.runs[i].pc = "done"
    /\ run.runs[1].docs[1].fetched_at # run.runs[2].docs[1].fetched_at
    /\ \E ks \in DOMAIN run.last, kc \in DOMAIN run.last :
          /\ ks[1] = "Source" /\ kc[1] = "Claim"
          /\ run.last[ks].writers = {1, 2} /\ run.last[kc].writers = {1, 2}
          /\ run.last[ks].by # run.last[kc].by
          /\ \E c1 \in Range(run.runs[1].claims), c2 \in Range(run.runs[2].claims) :
                /\ claim_id(c1) = kc[2] /\ claim_id(c2) = kc[2]
                /\ c1.confidence # c2.confidence

-----------------------------------------------------------------------------
(* The graph writes of two candidates of one run, made in the one order in  *)
(* store and in the other order in run.mirror                               *)

\* a candidate that was fetched and whose claims were extracted
Candidate(url, title, payload) ==
    [doc |-> Doc(url, title, <<"news">>, 0, None, None, Some(QueryQ)),
     claims |-> PayloadClaims(payload, NameNv, PeriodQ3)]

OrderCandidates ==
    {Candidate(UrlU, <<"T">>, p) : p \in PairPayloads \cup {<<>>}}
    \cup {Candidate(UrlW, <<"V">>, p) : p \in PairPayloads \cup {<<>>}}

\* upsert_source, upsert_claim_and_links for each claim, link_source_mentions_company
CandidateWrites(cand) ==
    <<[op |-> "upsert_source", a |-> <<cand.doc>>]>>
    \o [k \in 1..Len(cand.claims) |->
            [op |-> "upsert_claim_and_links",
             a |-> <<CidNv, source_id(cand.doc), PeriodQ3, cand.claims[k]>>]]
    \o <<[op |-> "link_source_mentions_company", a |-> <<source_id(cand.doc), CidNv>>]>>

Forward == CandidateWrites(run.first) \o CandidateWrites(run.second)
Backward == CandidateWrites(run.second) \o CandidateWrites(run.first)

OrderStep ==
    /\ run.pc = "order"
    /\ run.k < Len(Forward)
    /\ store' = Apply(Forward[run.k + 1], store, clock).G
    /\ run' = [run EXCEPT !.k = @ + 1,
                          !.mirror = Apply(Backward[run.k + 1], @, clock).G]
    /\ UNCHANGED <<clock, lastCall, opCount, history, world, fc>>

OrderTick ==
    /\ run.pc = "order"
    /\ run.k < Len(Forward)
    /\ clock < MaxTime
    /\ clock' = clock + 1
    /\ UNCHANGED <<store, lastCall, opCount, run, history, world, fc>>

InitOrder ==
    /\ store = SeededStore
    /\ clock = 0
    /\ lastCall = NoCall
    /\ opCount = 0
    /\ \E first \in OrderCandidates, second \in OrderCandidates :
          run = [pc |-> "order", first |-> first, second |-> second, k |-> 0,
                 mirror |-> SeededStore]
    /\ history = <<>>
    /\ world = NoWorld
    /\ fc = NoCheck

NextOrder ==
    \/ OrderStep
    \/ OrderTick

SpecOrder == InitOrder /\ [][NextOrder]_vars

TimeProps == {"created_at", "last_updated_at", "fetched_at"}

IdOf(G, nid) == (CHOOSE n \in G.nodes : n.nid = nid).props["id"]

\* the nodes by label and id and the edges between them
Shape(G) ==
    [nodes |-> {<<n.label, n.props["id"]>> : n \in G.nodes},
     edges |-> {[from |-> IdOf(G, e.from), type |-> e.type, to |-> IdOf(G, e.to),
                 period |-> e.period, count |-> G.edges[e]] : e \in DOMAIN G.edges}]

\* the graph apart from timestamps and node handles
Timeless(G) ==
    [shape |-> Shape(G),
     nodes |-> {[label |-> n.label, props |-> Without(n.props, TimeProps)] : n \in G.nodes}]

BothDone == run.pc = "order" /\ run.k = Len(Forward)

\* the claims of the two candidates that have the id
ClaimsWithId(cand, id) == {k \in DOMAIN cand.claims : claim_id(cand.claims[k]) = id}

\* both candidates yield a claim of the id, with different fields
Contested(id) ==
    \E i \in ClaimsWithId(run.first, id), j \in ClaimsWithId(run.second, id) :
        ClaimSet(run.first.claims[i]) # ClaimSet(run.second.claims[j])

Holds(n, claim) ==
    \A x \in DOMAIN ClaimSet(claim) :
        Get(n.props, ClaimSet(claim)[x].k) = ClaimSet(claim)[x].o

-----------------------------------------------------------------------------
(* agent/freshness.py.  A row is [source_type, last_fetched]: an optional   *)
(* category and an optional ISO string, [t, z]: the hour it denotes and its *)
(* UTC designator, "Z" or "+00:00".                                         *)

Iso(t, z) == [t |-> t, z |-> z]

\* THRESHOLDS, in hours
Configured == {<<"news">>, <<"blog">>, <<"forum">>, <<"social">>, <<"other">>}

THRESHOLDS(stype) ==
    CASE stype = <<"news">> -> 24
      [] stype = <<"blog">> -> 48
      [] stype = <<"forum">> -> 6
      [] stype = <<"social">> -> 6
      [] stype = <<"other">> -> 24

\* mutant: a category missing from the table gets the longest threshold
Threshold_LongestDefault(stype) ==
    IF stype \in Configured THEN THRESHOLDS(stype) ELSE THRESHOLDS(<<"blog">>)

\* THRESHOLDS.get(stype, THRESHOLDS["other"])
Threshold(stype) ==
    IF stype \in Configured THEN THRESHOLDS(stype) ELSE THRESHOLDS(<<"other">>)

\* row.get("source_type") or "other"
Stype(row) ==
    IF IsNone(row.source_type) \/ Len(row.source_type[1]) = 0
    THEN <<"other">> ELSE row.source_type[1]

\* _parse_dt: None for no string; "Z" is read as "+00:00", the same instant
_parse_dt(dt_str) ==
    IF IsNone(dt_str) THEN None
    ELSE Some([t |-> dt_str[1].t,
               offset |-> IF dt_str[1].z = "Z" THEN "+00:00" ELSE dt_str[1].z].t)

\* mutant: not fresher than the threshold counts as stale
RowStale_AtThreshold(row, now) ==
    \/ IsNone(_parse_dt(row.last_fetched))
    \/ now - _parse_dt(row.last_fetched)[1] >= Threshold(Stype(row))

\* last is None or (now - last) > threshold
RowStale(row, now) ==
    \/ IsNone(_parse_dt(row.last_fetched))
    \/ now - _parse_dt(row.last_fetched)[1] > Threshold(Stype(row))

\* sorted(): the categories in string order
Rank(stype) ==
    CASE stype = <<"blog">> -> 1
      [] stype = <<"docs">> -> 2
      [] stype = <<"forum">> -> 3
      [] stype = <<"news">> -> 4
      [] stype = <<"other">> -> 5
      [] stype = <<"social">> -> 6

\* mutant: the categories in reverse string order
RECURSIVE Sorted_Descending(_)
Sorted_Descending(S) ==
    IF S = {} THEN <<>>
    ELSE LET m == CHOOSE x \in S : \A y \in S : Rank(x) >= Rank(y)
         IN  <<m>> \o Sorted_Descending(S \ {m})

RECURSIVE Sorted(_)
Sorted(S) ==
    IF S = {} THEN <<>>
    ELSE LET m == CHOOSE x \in S : \A y \in S : Rank(x) <= Rank(y)
         IN  <<m>> \o Sorted(S \ {m})

FreshRow(source_type, last_fetched) ==
    [source_type |-> source_type, last_fetched |-> last_fetched]

\* rows as get_latest_fetch_by_type can return them, the check starting at hour 0
FreshRows ==
    {FreshRow(Some(<<"news">>), Some(Iso(-24, "Z"))),
     FreshRow(Some(<<"news">>), None),
     FreshRow(Some(<<"blog">>), Some(Iso(-48, "+00:00"))),
     FreshRow(Some(<<"forum">>), Some(Iso(-6, "Z"))),
     FreshRow(Some(<<"forum">>), Some(Iso(-3, "+00:00"))),
     FreshRow(Some(<<"social">>), Some(Iso(-6, "+00:00"))),
     FreshRow(Some(<<"other">>), Some(Iso(-24, "Z"))),
     FreshRow(Some(<<"docs">>), Some(Iso(-24, "+00:00"))),
     FreshRow(None, Some(Iso(-24, "Z"))),
     FreshRow(None, None)}

\* api/main.py ask: if freshness.was_stale and auto_refresh: refresh_company_period(...)
AskRefreshes(freshness_raw, auto_refresh) ==
    freshness_raw.was_stale /\ auto_refresh

\* def freshness_check(latest_by_type): not yet started
Check(latest_by_type) ==
    [pc |-> "start", latest_by_type |-> latest_by_type, now |-> 0, k |-> 1,
     stale_types |-> <<>>, details |-> <<>>, marked |-> <<>>, result |-> None]

\* now = datetime.now(timezone.utc)
FcStart ==
    /\ fc.pc = "start"
    /\ fc' = [fc EXCEPT !.now = clock, !.pc = "rows"]
    /\ UNCHANGED <<store, clock, lastCall, opCount, run, history, world>>

\* for row in latest_by_type: ...   (marked records which rows were appended
\* to stale_types)
FcRow ==
    /\ fc.pc = "rows"
    /\ fc.k <= Len(fc.latest_by_type)
    /\ LET row == fc.latest_by_type[fc.k]
           stale == RowStale(row, fc.now)
       IN  fc' = [fc EXCEPT
                    !.stale_types = IF stale THEN Append(@, Stype(row)) ELSE @,
                    !.marked = Append(@, stale),
                    !.details = Append(@, [source_type |-> Stype(row),
                                           last_fetched |-> _parse_dt(row.last_fetched),
                                           threshold_hours |-> Threshold(Stype(row))]),
                    !.k = @ + 1]
    /\ UNCHANGED <<store, clock, lastCall, opCount, run, history, world>>

\* return {...}
FcReturn ==
    /\ fc.pc = "rows"
    /\ fc.k > Len(fc.latest_by_type)
    /\ fc' = [fc EXCEPT
                !.pc = "done",
                !.result = Some([was_stale |-> Len(fc.stale_types) > 0,
                                 stale_types |-> Sorted(Range(fc.stale_types)),
                                 details |-> fc.details,
                                 checked_at |-> fc.now])]
    /\ UNCHANGED <<store, clock, lastCall, opCount, run, history, world>>

\* the wall clock moves while the check runs
Tick ==
    /\ fc.pc \in {"start", "rows"}
    /\ clock < MaxTime
    /\ clock' = clock + 1
    /\ UNCHANGED <<store, lastCall, opCount, run, history, world, fc>>

InitFresh ==
    /\ store = EmptyStore
    /\ clock = 0
    /\ lastCall = NoCall
    /\ opCount = 0
    /\ run = NoRun
    /\ history = <<>>
    /\ world = NoWorld
    /\ \E rows \in SeqsUpTo(FreshRows, MaxRows) : fc = Check(rows)

NextFresh ==
    \/ FcStart
    \/ FcRow
    \/ FcReturn
    \/ Tick

SpecFresh == InitFresh /\ [][NextFresh]_vars

-----------------------------------------------------------------------------
(* Freshness: the claims about it *)

Elapsed(row) == fc.now - row.last_fetched[1].t

\* C6: a row is marked stale exactly when it has no last-fetched timestamp or
\* the time from it to the one 'now' of the call is more than the threshold
\* of its category; at exactly the threshold it is not stale.
C6_StaleIffAbsentOrOlderThanThreshold ==
    \A j \in DOMAIN fc.marked :
        LET row == fc.latest_by_type[j] IN
        /\ fc.marked[j] <=>
              (IsNone(row.last_fetched) \/ Elapsed(row) > Threshold(Stype(row)))
        /\ IsNone(row.last_fetched) => fc.marked[j]
        /\ (~IsNone(row.last_fetched) /\ Elapsed(row) = fc.details[j].threshold_hours)
              => ~fc.marked[j]

\* C6 witness: a finished check, during which the clock moved, of a row at
\* exactly its threshold and a row without timestamp
C6_Witness ==
    /\ fc.pc = "done"
    /\ clock > fc.now
    /\ \E j \in DOMAIN fc.marked :
         /\ ~IsNone(fc.latest_by_type[j].last_fetched)
         /\ Elapsed(fc.latest_by_type[j]) = fc.details[j].threshold_hours
         /\ ~fc.marked[j]
    /\ \E j \in DOMAIN fc.marked :
         IsNone(fc.latest_by_type[j].last_fetched) /\ fc.marked[j]

\* C7: the threshold applied to a row is 24 hours for news, 48 for blog, 6 for
\* forum and for social, and 24 for any other or absent category; a forum row
\* fetched 3 hours ago is not stale.
C7_ThresholdTable ==
    \A j \in DOMAIN fc.details :
        LET row == fc.latest_by_type[j]
            hours == fc.details[j].threshold_hours
        IN  /\ row.source_type = Some(<<"news">>) => hours = 24
            /\ row.source_type = Some(<<"blog">>) => hours = 48
            /\ row.source_type = Some(<<"forum">>) => hours = 6
            /\ row.source_type = Some(<<"social">>) => hours = 6
            /\ row.source_type \notin {Some(<<"news">>), Some(<<"blog">>),
                                       Some(<<"forum">>), Some(<<"social">>)}
                  => hours = 24
            /\ (row.source_type = Some(<<"forum">>) /\ ~IsNone(row.last_fetched)
                  /\ Elapsed(row) = 3) => ~fc.marked[j]

\* C7 witness: a check has met a forum row fetched 3 hours before, a docs row
\* and a row without category
C7_Witness ==
    /\ \E j \in DOMAIN fc.details :
         /\ fc.latest_by_type[j].source_type = Some(<<"forum">>)
         /\ ~IsNone(fc.latest_by_type[j].last_fetched)
         /\ Elapsed(fc.latest_by_type[j]) = 3
    /\ \E j \in DOMAIN fc.details :
         \/ fc.latest_by_type[j].source_type = Some(<<"docs">>)
         \/ IsNone(fc.latest_by_type[j].source_type)

\* C28: a finished freshness_check reports was_stale exactly when some input
\* row is stale, and stale_types lists the categories of the stale rows once
\* each in string order; on an empty input it reports was_stale false and no
\* stale type, and the ask endpoint does not refresh.
C28_StaleSummary ==
    fc.pc = "done" =>
        LET res == fc.result[1]
            rows == fc.latest_by_type
            stale == {j \in DOMAIN rows : RowStale(rows[j], fc.now)}
            types == res.stale_types
        IN  /\ res.was_stale <=> stale # {}
            /\ Range(types) = {Stype(rows[j]) : j \in stale}
            /\ \A i, j \in DOMAIN types : i < j => Rank(types[i]) < Rank(types[j])
            /\ rows = <<>> =>
                   /\ ~res.was_stale
                   /\ types = <<>>
                   /\ \A auto_refresh \in BOOLEAN : ~AskRefreshes(res, auto_refresh)

\* C28 witness: a finished check of two stale rows whose categories were met
\* out of order
C28_Witness ==
    /\ fc.pc = "done"
    /\ Len(fc.result[1].stale_types) = 2
    /\ fc.stale_types # fc.result[1].stale_types
    /\ AskRefreshes(fc.result[1], TRUE)
====
